---- MODULE Spec2Model ----
(***************************************************************************)
(* A model of logcode.py: the entry parser (parse_log_line), the log       *)
(* scanner (the generator read_logs) and the three query operations        *)
(* get_logs, get_log_stats and get_log_by_id.                              *)
(*                                                                         *)
(* A Python str is a sequence of tokens: the characters TAB, SP and NL,    *)
(* and atoms, each standing for a run of characters that holds no          *)
(* whitespace ("t1": the text of a timestamp, "ERROR": a word).            *)
(* An Optional value is <<>> (None) or <<v>>.                              *)
(***************************************************************************)
EXTENDS Integers, Sequences, FiniteSets, TLC

VARIABLES
    dirExists,  \* os.path.exists(LOG_DIR)
    dir,        \* os.listdir(LOG_DIR), in listing order, with each file's content
    req,        \* per request: parameters, locals, generator position, response
    raw,        \* the line handed to parse_log_line (parser specification)
    parsed      \* the value parse_log_line returned for raw

vars == <<dirExists, dir, req, raw, parsed>>

-----------------------------------------------------------------------------
\* Bounds of the model.

\* files in the directory
MaxFiles == 2
\* lines in the directory, all files together
MaxLines == 3
\* tokens of a raw line handed to the parser alone
MaxLen == 8
\* requests in flight at once
NumClients == 2

-----------------------------------------------------------------------------
\* Strings.

TAB == "TAB"
SP == "SP"
NL == "NL"

\* str.strip() with no argument removes leading and trailing whitespace,
\* the tab character included.
IsSpace(c) == c \in {TAB, SP, NL}

RECURSIVE LStrip(_)
LStrip(s) ==
    IF s # <<>> /\ IsSpace(Head(s)) THEN LStrip(Tail(s)) ELSE s

RECURSIVE RStrip(_)
RStrip(s) ==
    IF s # <<>> /\ IsSpace(s[Len(s)]) THEN RStrip(SubSeq(s, 1, Len(s) - 1)) ELSE s

Strip(s) == RStrip(LStrip(s))

\* str.split(sep): the parts between the separators; "".split(sep) = [""].
RECURSIVE SplitAcc(_, _, _)
SplitAcc(s, sep, part) ==
    IF s = <<>> THEN <<part>>
    ELSE IF Head(s) = sep THEN <<part>> \o SplitAcc(Tail(s), sep, <<>>)
    ELSE SplitAcc(Tail(s), sep, Append(part, Head(s)))

Split(s, sep) == SplitAcc(s, sep, <<>>)

\* str.endswith(suffix), for a suffix of one token
EndsWith(s, suffix) == s # <<>> /\ s[Len(s)] = suffix

\* truthiness of a str parameter that is Optional: None and "" are falsy
Truthy(opt) == opt # <<>> /\ opt[1] # <<>>

-----------------------------------------------------------------------------
\* Date-times.

\* The atoms dateutil reads as a date-time: the instant, and whether the
\* text carries a UTC offset (an aware datetime) or not (a naive one).
TimeAtoms == {"t1", "t2", "t2z"}

InstantOf(a) == IF a = "t1" THEN 1 ELSE 2

DateTime(a) == [kind |-> "datetime", t |-> InstantOf(a), aware |-> (a = "t2z")]

RECURSIVE DropSpace(_)
DropSpace(s) ==
    IF s = <<>> THEN <<>>
    ELSE IF IsSpace(Head(s)) THEN DropSpace(Tail(s))
    ELSE <<Head(s)>> \o DropSpace(Tail(s))

\* dateutil.parser.parse(text): <<datetime>>, or <<>> when it raises.
\* Whitespace around the date text is ignored; an empty text, a word that
\* is no date and two date texts in a row all raise.
ParseTime(text) ==
    LET core == DropSpace(text)
    IN  IF Len(core) = 1 /\ core[1] \in TimeAtoms THEN <<DateTime(core[1])>> ELSE <<>>

\* datetime.isoformat(): a str, with the offset when the datetime is aware
IsoFormat(d) == [kind |-> "str", t |-> d.t, aware |-> d.aware]

\* a < b on datetimes raises TypeError when one is naive and the other aware
Comparable(a, b) == a.aware = b.aware

-----------------------------------------------------------------------------
\* Entry parser.

\* hashlib.sha1(raw_line.encode()).hexdigest(): a digest that depends on
\* the whole raw line and on nothing else (no two lines of the model collide)
generate_log_id(raw_line) == [sha1 |-> raw_line]

parse_log_line(line) ==
    LET parts == Split(Strip(line), TAB)
    IN  IF Len(parts) # 4 THEN <<>>
        ELSE LET ts == ParseTime(parts[1])
             IN  IF ts = <<>> THEN <<>>
                 ELSE << [id |-> generate_log_id(line),
                          timestamp |-> ts[1],
                          level |-> parts[2],
                          component |-> parts[3],
                          message |-> parts[4]] >>

-----------------------------------------------------------------------------
\* The log directory.

\* Raw lines as the file iterator hands them over, newline included.
LineA == <<"t1", TAB, "ERROR", TAB, "auth", TAB, "m", NL>>
LineZ == <<"t2z", TAB, "INFO", TAB, "db", TAB, "m", NL>>
LineX == <<"bad", TAB, "line", NL>>

LineSamples == {LineA, LineZ, LineX}

\* A directory entry: its name (the stem, which the code never looks at, and
\* the extension), whether open() and the first read succeed, and its lines.
\* A file of the model fits in one read buffer, so undecodable bytes anywhere
\* in it make the first read raise: no line of such a file is ever seen.
LogName == <<"name", ".log">>
TxtName == <<"name", ".txt">>

Contents(n) == UNION {[1..k -> LineSamples] : k \in 0..n}

FileSet(n) ==
    {[name |-> nm, mode |-> "ok", lines |-> c] : nm \in {LogName, TxtName}, c \in Contents(n)}
    \cup {[name |-> LogName, mode |-> m, lines |-> <<>>] : m \in {"openfail", "readfail"}}

RECURSIVE DirsOf(_, _)
DirsOf(k, n) ==
    IF k = 0 THEN {<<>>}
    ELSE {<<>>} \cup
         UNION {{<<f>> \o d : d \in DirsOf(k - 1, n - Len(f.lines))} : f \in FileSet(n)}

-----------------------------------------------------------------------------
\* Requests.

\* the state of a request that has not arrived
Idle ==
    [pc |-> "idle", op |-> "none",
     level |-> <<>>, component |-> <<>>, start_time |-> <<>>, end_time |-> <<>>,
     log_id |-> <<>>, start_dt |-> <<>>, end_dt |-> <<>>,
     fi |-> 0, li |-> 0, open |-> {}, cur |-> <<>>,
     logs |-> <<>>, count |-> 0,
     total |-> 0, level_counts |-> <<>>, component_counts |-> <<>>,
     status |-> 0, error |-> ""]

\* A list that outlives the call (a module-level logs = []): the call starts
\* from what another call has put there.
SharedList ==
    LET others == {r \in DOMAIN req : req[r].logs # <<>>}
    IN  IF others = {} THEN <<>> ELSE req[CHOOSE r \in others : TRUE].logs

\* logs = []: a list of the call's own
FreshList == <<>>

\* total = 0; level_counts = {}; component_counts = {}
FreshDict == <<>>

\* d[k] = 1: the count the key already has is lost
IncrementLost(d, k) == [x \in (DOMAIN d) \cup {k} |-> IF x = k THEN 1 ELSE d[x]]

\* d[k] = d.get(k, 0) + 1
Increment(d, k) ==
    [x \in (DOMAIN d) \cup {k} |->
        IF x = k THEN (IF k \in DOMAIN d THEN d[k] ELSE 0) + 1 ELSE d[x]]

\* An exception that no handler catches: the framework answers 500.
Raise(rq, what) == [rq EXCEPT !.pc = "done", !.status = 500, !.error = what]

\* The dropped generator is never finalised: the file stays open.
GeneratorLeak(open) == open

\* The generator is dropped while suspended at its yield (the consumer
\* returned or raised): its finalisation raises GeneratorExit at the yield,
\* and the with block closes the file on the way out.
GeneratorClose(open) == {}

\* get_logs up to its loop: logs = [], then the two time bounds.
get_logs(q) ==
    LET rq == [Idle EXCEPT !.op = "list", !.level = q.level, !.component = q.component,
                           !.start_time = q.start_time, !.end_time = q.end_time,
                           !.logs = FreshList]
        sd == IF Truthy(q.start_time) THEN ParseTime(q.start_time[1]) ELSE <<>>
        ed == IF Truthy(q.end_time) THEN ParseTime(q.end_time[1]) ELSE <<>>
    IN  IF (Truthy(q.start_time) /\ sd = <<>>) \/ (Truthy(q.end_time) /\ ed = <<>>)
        THEN [rq EXCEPT !.pc = "done", !.status = 400, !.error = "Invalid timestamp format"]
        ELSE [rq EXCEPT !.pc = "listdir", !.start_dt = sd, !.end_dt = ed]

\* get_log_stats up to its loop
get_log_stats ==
    [Idle EXCEPT !.op = "stats", !.pc = "listdir", !.total = 0,
                 !.level_counts = FreshDict, !.component_counts = FreshDict]

\* get_log_by_id up to its loop
get_log_by_id(id) == [Idle EXCEPT !.op = "byid", !.pc = "listdir", !.log_id = <<id>>]

\* The loop is over (the generator is exhausted): what each operation does next.
Finish(rq) ==
    CASE rq.op = "list" -> [rq EXCEPT !.pc = "done", !.status = 200, !.count = Len(rq.logs)]
      [] rq.op = "stats" -> [rq EXCEPT !.pc = "done", !.status = 200]
      [] OTHER -> [rq EXCEPT !.pc = "done", !.status = 404, !.error = "Log entry not found"]

\* The body of get_logs' loop for one entry.
FilterLog(rq, log) ==
    IF Truthy(rq.level) /\ log.level # rq.level[1] THEN rq
    ELSE IF Truthy(rq.component) /\ log.component # rq.component[1] THEN rq
    ELSE IF rq.start_dt # <<>> /\ ~Comparable(log.timestamp, rq.start_dt[1])
        THEN [Raise(rq, "TypeError") EXCEPT !.open = GeneratorClose(rq.open)]
    ELSE IF rq.start_dt # <<>> /\ log.timestamp.t < rq.start_dt[1].t THEN rq
    ELSE IF rq.end_dt # <<>> /\ ~Comparable(log.timestamp, rq.end_dt[1])
        THEN [Raise(rq, "TypeError") EXCEPT !.open = GeneratorClose(rq.open)]
    ELSE IF rq.end_dt # <<>> /\ log.timestamp.t > rq.end_dt[1].t THEN rq
    ELSE LET log_copy == [log EXCEPT !.timestamp = IsoFormat(log.timestamp)]
         IN  [rq EXCEPT !.logs = Append(rq.logs, log_copy)]

\* The body of get_log_stats' loop for one entry.
CountLog(rq, log) ==
    [rq EXCEPT !.total = rq.total + 1,
               !.level_counts = Increment(rq.level_counts, log.level),
               !.component_counts = Increment(rq.component_counts, log.component)]

\* The body of get_log_by_id's loop for one entry: on a match the entry
\* itself gets its timestamp replaced and is returned.
MatchLog(rq, log) ==
    IF log.id = rq.log_id[1]
    THEN [rq EXCEPT !.cur = << [log EXCEPT !.timestamp = IsoFormat(log.timestamp)] >>,
                    !.pc = "done", !.status = 200,
                    !.open = GeneratorClose(rq.open)]
    ELSE rq

Consume(rq, log) ==
    CASE rq.op = "list" -> FilterLog(rq, log)
      [] rq.op = "stats" -> CountLog(rq, log)
      [] OTHER -> MatchLog(rq, log)

-----------------------------------------------------------------------------
\* The generator read_logs, one step per access to the file system.

\* os.path.exists(LOG_DIR), then os.listdir(LOG_DIR)
ListDirStep(rq) ==
    IF ~dirExists THEN Finish(rq) ELSE [rq EXCEPT !.pc = "nextfile"]

\* the next name of the listing: skipped unless it ends in .log, else opened
OpenStep(rq) ==
    IF rq.fi = Len(dir) THEN Finish(rq)
    ELSE LET i == rq.fi + 1
             file == dir[i]
         IN  IF ~EndsWith(file.name, ".log") THEN [rq EXCEPT !.fi = i]
             ELSE IF file.mode = "openfail" THEN Raise([rq EXCEPT !.fi = i], "OSError")
             ELSE [rq EXCEPT !.fi = i, !.li = 0, !.open = rq.open \cup {i}, !.pc = "readline"]

\* the next line of the open file, parsed and handed to the consumer
ReadStep(rq) ==
    LET file == dir[rq.fi]
    IN  IF file.mode = "readfail"
        THEN [Raise(rq, "UnicodeDecodeError") EXCEPT !.open = rq.open \ {rq.fi}]
        ELSE IF rq.li = Len(file.lines)
        THEN [rq EXCEPT !.open = rq.open \ {rq.fi}, !.pc = "nextfile"]
        ELSE LET line == file.lines[rq.li + 1]
                 log == parse_log_line(line)
                 at == [rq EXCEPT !.li = rq.li + 1]
             IN  IF log = <<>> THEN at
                 ELSE Consume([at EXCEPT !.cur = log], log[1])

-----------------------------------------------------------------------------
\* Actions.

NoRaw == [done |-> FALSE, val |-> <<>>]

\* query strings: level, component, start_time, end_time
Levels == {<<>>, << <<>> >>, << <<"ERROR">> >>}
Components == {<<>>, << <<>> >>, << <<"auth">> >>}
TimeTexts == {<<>>, << <<>> >>, << <<"bad">> >>, << <<"t1">> >>, << <<"t2">> >>, << <<"t2z">> >>}

Queries ==
    [level : Levels, component : Components, start_time : TimeTexts, end_time : TimeTexts]

\* log ids asked for: the digest of each sample line
Ids == {generate_log_id(l) : l \in LineSamples}

GetLogs(r, Q) ==
    /\ req[r].pc = "idle"
    /\ \E q \in Q : req' = [req EXCEPT ![r] = get_logs(q)]
    /\ UNCHANGED <<dirExists, dir, raw, parsed>>

GetLogStats(r) ==
    /\ req[r].pc = "idle"
    /\ req' = [req EXCEPT ![r] = get_log_stats]
    /\ UNCHANGED <<dirExists, dir, raw, parsed>>

GetLogById(r, I) ==
    /\ req[r].pc = "idle"
    /\ \E id \in I : req' = [req EXCEPT ![r] = get_log_by_id(id)]
    /\ UNCHANGED <<dirExists, dir, raw, parsed>>

ReadLogsListDir(r) ==
    /\ req[r].pc = "listdir"
    /\ req' = [req EXCEPT ![r] = ListDirStep(req[r])]
    /\ UNCHANGED <<dirExists, dir, raw, parsed>>

ReadLogsOpen(r) ==
    /\ req[r].pc = "nextfile"
    /\ req' = [req EXCEPT ![r] = OpenStep(req[r])]
    /\ UNCHANGED <<dirExists, dir, raw, parsed>>

ReadLogsLine(r) ==
    /\ req[r].pc = "readline"
    /\ req' = [req EXCEPT ![r] = ReadStep(req[r])]
    /\ UNCHANGED <<dirExists, dir, raw, parsed>>

ScanSteps(r) == ReadLogsListDir(r) \/ ReadLogsOpen(r) \/ ReadLogsLine(r)

InitDir(D) ==
    /\ dirExists \in BOOLEAN
    /\ dir \in (IF dirExists THEN D ELSE {<<>>})
    /\ req = [r \in 1..NumClients |-> Idle]
    /\ raw = <<>>
    /\ parsed = NoRaw

\* One request at a time, every query over every directory.
Init == InitDir(DirsOf(MaxFiles, MaxLines))

Next ==
    \/ GetLogs(1, Queries)
    \/ GetLogStats(1)
    \/ GetLogById(1, Ids)
    \/ ScanSteps(1)

Spec == Init /\ [][Next]_vars

-----------------------------------------------------------------------------
\* One request at a time, a few queries over every directory.

NoFilter == [level |-> <<>>, component |-> <<>>, start_time |-> <<>>, end_time |-> <<>>]

ScanQueries ==
    {NoFilter,
     [NoFilter EXCEPT !.level = << <<"ERROR">> >>],
     [NoFilter EXCEPT !.start_time = << <<"t1">> >>, !.end_time = << <<"t2">> >>],
     [NoFilter EXCEPT !.end_time = << <<"bad">> >>]}

NextScan ==
    \/ GetLogs(1, ScanQueries)
    \/ GetLogStats(1)
    \/ GetLogById(1, Ids)
    \/ ScanSteps(1)

SpecScan == Init /\ [][NextScan]_vars

-----------------------------------------------------------------------------
\* Several requests in flight over one directory, their steps interleaved
\* (the framework runs each synchronous handler on a thread of its pool).

ConcDirs ==
    { << [name |-> LogName, mode |-> "ok", lines |-> <<LineA, LineX>>] >>,
      << [name |-> LogName, mode |-> "ok", lines |-> <<LineX, LineA>>],
         [name |-> LogName, mode |-> "ok", lines |-> <<LineZ, LineA>>] >>,
      << [name |-> TxtName, mode |-> "ok", lines |-> <<LineZ>>],
         [name |-> LogName, mode |-> "ok", lines |-> <<LineA>>],
         [name |-> LogName, mode |-> "openfail", lines |-> <<>>] >>,
      << [name |-> LogName, mode |-> "ok", lines |-> <<LineZ>>],
         [name |-> LogName, mode |-> "readfail", lines |-> <<>>] >> }

ConcQueries ==
    {NoFilter,
     [NoFilter EXCEPT !.level = << <<"ERROR">> >>, !.start_time = << <<"t1">> >>]}

ConcIds == {generate_log_id(LineA), generate_log_id(LineX)}

InitConc == InitDir(ConcDirs)

NextConc ==
    \E r \in 1..NumClients :
        \/ GetLogs(r, ConcQueries)
        \/ GetLogStats(r)
        \/ GetLogById(r, ConcIds)
        \/ ScanSteps(r)

SpecConc == InitConc /\ [][NextConc]_vars

-----------------------------------------------------------------------------
\* The parser alone, over every raw line of at most MaxLen tokens.

ParseAlphabet == {TAB, NL, "t1", "bad"}

RawLines(n) == UNION {[1..k -> ParseAlphabet] : k \in 0..n}

InitParse ==
    /\ raw \in RawLines(MaxLen)
    /\ parsed = NoRaw
    /\ dirExists = FALSE
    /\ dir = <<>>
    /\ req = [r \in 1..NumClients |-> Idle]

ParseLine ==
    /\ ~parsed.done
    /\ parsed' = [done |-> TRUE, val |-> parse_log_line(raw)]
    /\ UNCHANGED <<dirExists, dir, req, raw>>

NextParse == ParseLine

SpecParse == InitParse /\ [][NextParse]_vars

-----------------------------------------------------------------------------
\* What the claims speak of.

Requests == DOMAIN req

IsLogFile(f) == f.name[Len(f.name)] = ".log"

\* the entries of the parsable lines among lines, in order
RECURSIVE ParsedOf(_)
ParsedOf(lines) ==
    IF lines = <<>> THEN <<>> ELSE parse_log_line(Head(lines)) \o ParsedOf(Tail(lines))

\* the entries of all files of d whose name ends in .log, in scan order
RECURSIVE EntriesOf(_)
EntriesOf(d) ==
    IF d = <<>> THEN <<>>
    ELSE (IF IsLogFile(Head(d)) THEN ParsedOf(Head(d).lines) ELSE <<>>) \o EntriesOf(Tail(d))

\* an entry as a response shows it: the timestamp as ISO-8601 text
Rendered(e) == [e EXCEPT !.timestamp = IsoFormat(e.timestamp)]

RenderedAll(es) == [i \in 1..Len(es) |-> Rendered(es[i])]

RECURSIVE SumOf(_)
SumOf(d) ==
    IF DOMAIN d = {} THEN 0
    ELSE LET k == CHOOSE x \in DOMAIN d : TRUE
         IN  d[k] + SumOf([x \in (DOMAIN d) \ {k} |-> d[x]])

\* a parameter is present when it was supplied, the empty string included
Supplied(p) == p # <<>>

\* every supplied time bound is text that parses
BoundsParse(rq) ==
    /\ Supplied(rq.start_time) => ParseTime(rq.start_time[1]) # <<>>
    /\ Supplied(rq.end_time) => ParseTime(rq.end_time[1]) # <<>>

\* the filtering policy, on the instants of the timestamps
Satisfies(rq, e) ==
    /\ ~Supplied(rq.level) \/ e.level = rq.level[1]
    /\ ~Supplied(rq.component) \/ e.component = rq.component[1]
    /\ ~Supplied(rq.start_time) \/ e.timestamp.t >= ParseTime(rq.start_time[1])[1].t
    /\ ~Supplied(rq.end_time) \/ e.timestamp.t <= ParseTime(rq.end_time[1])[1].t

Selected(rq, es) == SelectSeq(es, LAMBDA e : Satisfies(rq, e))

\* C1: get_logs returns an entry only if it satisfies the filtering policy
\* (a supplied parameter, the empty string included, being a present filter),
\* and it returns every scanned entry that does, in scan order.
C1_FilterPolicy ==
    \A r \in Requests :
        LET rq == req[r]
        IN  (rq.op = "list" /\ BoundsParse(rq)) =>
                /\ \A i \in 1..Len(rq.logs) :
                       \E j \in 1..Len(EntriesOf(dir)) :
                           /\ rq.logs[i] = Rendered(EntriesOf(dir)[j])
                           /\ Satisfies(rq, EntriesOf(dir)[j])
                /\ rq.status = 200 =>
                       rq.logs = RenderedAll(Selected(rq, EntriesOf(dir)))

\* C2: a .log file that cannot be opened or read does not abort the scan:
\* no operation ends with the read error, and stats and the unfiltered
\* listing cover every parsable line of the readable .log files.
C2_UnreadableFileSkipped ==
    \A r \in Requests :
        LET rq == req[r]
        IN  rq.pc = "done" =>
                /\ rq.error \notin {"OSError", "UnicodeDecodeError"}
                /\ rq.op = "stats" => rq.total = Len(EntriesOf(dir))
                /\ (rq.op = "list" /\ rq.status = 200 /\ ~Supplied(rq.level)
                        /\ ~Supplied(rq.component) /\ ~Supplied(rq.start_time)
                        /\ ~Supplied(rq.end_time))
                     => rq.logs = RenderedAll(EntriesOf(dir))

\* C3: a raw line whose split on the tab character does not yield exactly
\* 4 parts is never parsed into an entry.
C3_FieldCountRejected ==
    (parsed.done /\ Len(Split(raw, TAB)) # 4) => parsed.val = <<>>

\* C5: when a supplied start_time or end_time is text that does not parse,
\* get_logs fails with 400 and returns no result.
C5_InvalidTimestamp ==
    \A r \in Requests :
        LET rq == req[r]
        IN  (rq.op = "list" /\ ~BoundsParse(rq)) =>
                (rq.pc = "done" /\ rq.status = 400 /\ rq.logs = <<>>)

\* positions of es whose entry has the id
WithId(es, id) == {i \in 1..Len(es) : es[i].id = id}

\* the scan is over: every file of the listing was gone through
ScanComplete(rq) == rq.pc = "done" /\ rq.open = {} /\ (dirExists => rq.fi = Len(dir))

\* C7: get_log_by_id returns the first entry in scan order that has the id,
\* its timestamp as ISO-8601 text; for an id no entry has it signals 404,
\* and only once the scan is complete.
C7_GetById ==
    \A r \in Requests :
        LET rq == req[r]
            es == EntriesOf(dir)
        IN  (rq.op = "byid" /\ rq.pc = "done") =>
                IF WithId(es, rq.log_id[1]) # {}
                THEN LET first == CHOOSE i \in WithId(es, rq.log_id[1]) :
                                      \A j \in WithId(es, rq.log_id[1]) : i <= j
                     IN  rq.status = 200 /\ rq.cur = <<Rendered(es[first])>>
                ELSE rq.status = 404 /\ ScanComplete(rq)

\* C8: get_logs with no filter returns exactly the entries of the parsable
\* lines of the files whose name ends in .log, in file order, with count
\* the length of the list; for a directory that does not exist, the empty
\* list with count 0.
C8_Unfiltered ==
    \A r \in Requests :
        LET rq == req[r]
        IN  (rq.op = "list" /\ rq.pc = "done" /\ rq.level = <<>> /\ rq.component = <<>>
                /\ rq.start_time = <<>> /\ rq.end_time = <<>>) =>
                /\ rq.status = 200
                /\ rq.logs = RenderedAll(EntriesOf(dir))
                /\ rq.count = Len(rq.logs)
                /\ ~dirExists => (rq.logs = <<>> /\ rq.count = 0)

\* the line the entry last yielded to a request was built from
LineOf(rq) == dir[rq.fi].lines[rq.li]

\* C10: an entry the scan yielded keeps the fields the parser gave it.
C10_EntryNotMutated ==
    \A r \in Requests :
        req[r].cur # <<>> => req[r].cur = parse_log_line(LineOf(req[r]))

-----------------------------------------------------------------------------
\* C4: file handles.

\* C4: a scan holds at most one file handle, and holds it only while its
\* generator is inside the with block of that file: once the lines are
\* exhausted, a read has failed, or the operation has returned or raised
\* (get_log_by_id returning on a match mid-file included), none is open.
C4_HandlesReleased ==
    \A r \in Requests :
        /\ Cardinality(req[r].open) <= 1
        /\ req[r].pc = "readline" => req[r].open = {req[r].fi}
        /\ req[r].pc # "readline" => req[r].open = {}

\* get_log_by_id has returned a match with lines of the file still unread
C4_Witness ==
    \E r \in Requests :
        /\ req[r].op = "byid" /\ req[r].pc = "done" /\ req[r].status = 200
        /\ req[r].li < Len(dir[req[r].fi].lines)
        /\ req[r].open = {}

-----------------------------------------------------------------------------
\* C6: the statistics.

\* the entries the scan of a request has yielded so far
YieldedSoFar(rq) ==
    IF rq.pc = "readline"
    THEN EntriesOf(SubSeq(dir, 1, rq.fi - 1)) \o ParsedOf(SubSeq(dir[rq.fi].lines, 1, rq.li))
    ELSE EntriesOf(SubSeq(dir, 1, rq.fi))

\* C6: after each entry get_log_stats consumes, and so in its result, the
\* total is the sum of the counts by level and the sum of the counts by
\* component, and it is the number of entries the scan has yielded; each
\* count is the number of yielded entries that have the key.
C6_StatsTotals ==
    \A r \in Requests :
        LET rq == req[r]
            es == YieldedSoFar(rq)
        IN  rq.op = "stats" =>
                /\ rq.total = SumOf(rq.level_counts)
                /\ rq.total = SumOf(rq.component_counts)
                /\ rq.total = Len(es)
                /\ \A k \in DOMAIN rq.level_counts :
                       rq.level_counts[k] = Cardinality({i \in 1..Len(es) : es[i].level = k})
                /\ \A k \in DOMAIN rq.component_counts :
                       rq.component_counts[k] =
                           Cardinality({i \in 1..Len(es) : es[i].component = k})

\* get_log_stats has returned counts for two levels, one of them seen twice
C6_Witness ==
    \E r \in Requests :
        /\ req[r].op = "stats" /\ req[r].pc = "done" /\ req[r].status = 200
        /\ Cardinality(DOMAIN req[r].level_counts) >= 2
        /\ \E k \in DOMAIN req[r].level_counts : req[r].level_counts[k] >= 2

-----------------------------------------------------------------------------
\* C9: requests in flight together.

\* the request as it arrived, from the parameters it carries
Arrived(rq) ==
    CASE rq.op = "list" ->
             get_logs([level |-> rq.level, component |-> rq.component,
                       start_time |-> rq.start_time, end_time |-> rq.end_time])
      [] rq.op = "stats" -> get_log_stats
      [] OTHER -> get_log_by_id(rq.log_id[1])

StepOf(rq) ==
    CASE rq.pc = "listdir" -> ListDirStep(rq)
      [] rq.pc = "nextfile" -> OpenStep(rq)
      [] OTHER -> ReadStep(rq)

\* the states a request goes through when it runs with no other request
RECURSIVE RunAlone(_)
RunAlone(rq) ==
    IF rq.pc = "done" THEN {rq} ELSE {rq} \cup RunAlone(StepOf(rq))

\* C9: whatever the interleaving, a request is always in a state it goes
\* through when it runs alone over the same directory, so that it ends
\* with the result it has when run alone.
C9_NoInterference ==
    \A r \in Requests :
        req[r].pc # "idle" => req[r] \in RunAlone(Arrived(req[r]))

\* two different operations are both part-way through the same file, each
\* holding its own handle and having consumed an entry
C9_Witness ==
    \E r1, r2 \in Requests :
        /\ r1 # r2
        /\ req[r1].op = "list" /\ req[r2].op = "stats"
        /\ req[r1].pc = "readline" /\ req[r2].pc = "readline"
        /\ req[r1].fi = req[r2].fi
        /\ req[r1].logs # <<>> /\ req[r2].total >= 1

====
